---- MODULE Spec2Model ----
(***************************************************************************)
(* Entitlement lifecycle of SoftwareSalesManager: the role-gated REST      *)
(* handlers of server/routes.ts over the DatabaseStorage tables (users,    *)
(* clients, subscriptions, licenses, invoices, transactions).              *)
(*                                                                         *)
(* Tables are sequences: a row's id is its index (serial primary key) and  *)
(* no handler deletes a row.  Strings that only matter by equality         *)
(* (license keys) are numbered tokens.  A date column is a whole day       *)
(* number; a timestamp is counted in ticks of TicksPerDay per day, so a    *)
(* date d read as a timestamp is midnight, d * TicksPerDay.  The           *)
(* created_at / updated_at columns are not modelled.                       *)
(***************************************************************************)
EXTENDS Integers, Sequences, FiniteSets, TLC

\* ---------------------------------------------------------------- bounds
MaxLicenses == 2
MaxSubscriptions == 3
MaxInvoices == 1
MaxTransactions == 2
MaxNow == 3
MaxRequests == 2
MaxTickets == 2
MaxTicketUpdates == 3
MaxUsers == 6
MaxClients == 3
TicksPerDay == 2

\* ------------------------------------------------------------- constants
Anon == 0          \* the unauthenticated caller (req.isAuthenticated() false)
NoClient == 0      \* getClientByUserId found no row
NoInvoice == 0     \* transactions.invoice_id is NULL
EmptyKey == 0      \* licenseKey: "" (falsy, so a key is generated)
NoStaff == 0       \* tickets.assigned_to is NULL; getStaffByUserId found no row
ExpiringThresholdDays == 14

LicenseStatus == {"active", "expired", "pending", "revoked"}
TransactionStatus == {"pending", "completed", "refunded", "failed"}
SubscriptionType == {"monthly", "quarterly", "yearly"}
TicketStatus == {"new", "in_progress", "resolved", "closed"}
NoDate == -1       \* a timestamp column that is NULL
Keys == {1, 2}
Dates == {0, 1, 15}

VARIABLES users, clients, staff, subscriptions, licenses, invoices,
          transactions, tickets, ticketUpdates, inflight, now, resp

vars == <<users, clients, staff, subscriptions, licenses, invoices,
          transactions, tickets, ticketUpdates, inflight, now, resp>>
entities == <<users, clients, staff, subscriptions, licenses, invoices,
              transactions, tickets, ticketUpdates>>

\* ------------------------------------------------------------ middleware
Role(u) == IF u \in DOMAIN users THEN users[u].role ELSE "none"

isAuthenticated(u) == u # Anon

isSalesAnyAuthenticated(u) == u # Anon
isSales(u) == u # Anon /\ Role(u) \in {"sales", "admin"}

\* ------------------------------------------------------------- responses
\* The answer a handler has computed and res.json / res.status is sending:
\* the route, the caller, the row id (or query) asked for, the HTTP status
\* and the ids of the rows in the body.
Resp(op, u, id, status, body) ==
    [op |-> op, caller |-> u, id |-> id, status |-> status, body |-> body]

NoResp == Resp("none", Anon, 0, 0, {})

\* No answer is on its way: the server takes the next request.
Idle == resp = NoResp

\* The answer reaches the caller.
Respond ==
    /\ ~Idle
    /\ resp' = NoResp
    /\ UNCHANGED <<users, clients, staff, tickets, ticketUpdates,
                   subscriptions, licenses, invoices,
                   transactions, inflight, now>>

\* ----------------------------------------------------- partial row update
\* db.update(t).set({...data}).where(eq(t.id, id)): the fields data carries
\* replace the row's, the others stay.
Merge(row, data) ==
    [f \in DOMAIN row |-> IF f \in DOMAIN data THEN data[f] ELSE row[f]]

Field(data, f, default) == IF f \in DOMAIN data THEN data[f] ELSE default

\* ------------------------------------------------------------ the clock
\* new Date(): the server's clock, in ticks.
Tick ==
    /\ now < MaxNow
    /\ now' = now + 1
    /\ UNCHANGED <<users, clients, staff, tickets, ticketUpdates,
                   subscriptions, licenses, invoices,
                   transactions, inflight, resp>>

\* date-fns differenceInDays(dateLeft, dateRight): the number of full days
\* between the two instants, truncated toward zero.
differenceInDays(left, right) ==
    IF left >= right THEN (left - right) \div TicksPerDay
                     ELSE -((right - left) \div TicksPerDay)

\* ------------------------------------------------------------- calendar
\* Day numbers as calendar dates: day 0 is 2024-01-30, so day 1 is
\* 2024-01-31.
Epoch == [year |-> 2024, offset |-> 29]

IsLeapYear(y) == (y % 4 = 0 /\ y % 100 # 0) \/ y % 400 = 0

DaysInMonth(y, m) ==
    IF m = 2 THEN (IF IsLeapYear(y) THEN 29 ELSE 28)
    ELSE IF m \in {4, 6, 9, 11} THEN 30 ELSE 31

RECURSIVE YMD(_, _, _)
\* The date r days after the first of month m of year y.
YMD(y, m, r) ==
    IF r < DaysInMonth(y, m) THEN <<y, m, r + 1>>
    ELSE IF m = 12 THEN YMD(y + 1, 1, r - DaysInMonth(y, m))
    ELSE YMD(y, m + 1, r - DaysInMonth(y, m))

RECURSIVE DaysBefore(_, _)
\* The days from the first of January of Epoch.year to the first of month m
\* of year y.
DaysBefore(y, m) ==
    IF y = Epoch.year /\ m = 1 THEN 0
    ELSE IF m = 1 THEN DaysBefore(y - 1, 12) + 31
    ELSE DaysBefore(y, m - 1) + DaysInMonth(y, m - 1)

\* Calendar month arithmetic: the same day of the month k months on, or
\* the last day of that month when it is shorter.
AddMonths(d, k) ==
    LET ymd == YMD(Epoch.year, 1, d + Epoch.offset)
        total == (ymd[2] - 1) + k
        y == ymd[1] + total \div 12
        m == (total % 12) + 1
        day == IF ymd[3] > DaysInMonth(y, m) THEN DaysInMonth(y, m)
               ELSE ymd[3]
    IN  DaysBefore(y, m) + (day - 1) - Epoch.offset

PeriodMonths(subscriptionType) ==
    IF subscriptionType = "monthly" THEN 1
    ELSE IF subscriptionType = "quarterly" THEN 3 ELSE 12

\* ------------------------------------------------------------- licenses
LicenseFields ==
    {"subscriptionId", "licenseKey", "status", "activationDate",
     "expirationDate", "notificationsSent"}

\* insertLicenseSchema: the NOT NULL columns without a default are required,
\* status is the license_status enum.
ValidLicenseInsert(data) ==
    /\ DOMAIN data \subseteq LicenseFields
    /\ {"subscriptionId", "licenseKey", "activationDate", "expirationDate"}
           \subseteq DOMAIN data
    /\ Field(data, "status", "active") \in LicenseStatus

\* insertLicenseSchema.partial(): every field optional, enum still checked.
ValidLicensePatch(data) ==
    /\ DOMAIN data \subseteq LicenseFields
    /\ Field(data, "status", "active") \in LicenseStatus

KeyInUseNever(key, except) == FALSE
\* licenses.license_key is UNIQUE: another row holds the key.
KeyInUse(key, except) ==
    \E l \in DOMAIN licenses : l # except /\ licenses[l].licenseKey = key

\* createLicense: the insert throws on a foreign-key or unique violation.
LicenseInsertThrows(data) ==
    \/ data.subscriptionId \notin DOMAIN subscriptions
    \/ KeyInUse(data.licenseKey, 0)

\* The row the insert stores: column defaults fill what data leaves out.
NewLicense(data) ==
    [subscriptionId |-> data.subscriptionId,
     licenseKey |-> data.licenseKey,
     status |-> Field(data, "status", "active"),
     activationDate |-> data.activationDate,
     expirationDate |-> data.expirationDate,
     notificationsSent |-> Field(data, "notificationsSent", 0)]

\* updateLicense: the update throws on a foreign-key or unique violation.
LicenseUpdateThrows(id, data) ==
    \/ /\ "subscriptionId" \in DOMAIN data
       /\ data.subscriptionId \notin DOMAIN subscriptions
    \/ /\ "licenseKey" \in DOMAIN data
       /\ KeyInUse(data.licenseKey, id)

\* generateLicenseKey: a random token; nothing checks it against the store.
generateLicenseKey == Keys

PostLicenseStatus(u, data) ==
    IF ~isSales(u) THEN 403
    ELSE IF ~ValidLicenseInsert(data) THEN 400
    ELSE IF LicenseInsertThrows(data) THEN 500
    ELSE 201

\* POST /api/licenses
PostLicense(u, body) ==
    LET generate == "licenseKey" \in DOMAIN body /\ body.licenseKey = EmptyKey
    IN  \E key \in IF generate THEN generateLicenseKey ELSE {EmptyKey} :
          LET data == IF generate THEN [body EXCEPT !.licenseKey = key]
                                  ELSE body
              st == PostLicenseStatus(u, data)
              id == Len(licenses) + 1
          IN  /\ Idle
              /\ st = 201 => Len(licenses) < MaxLicenses
              /\ licenses' = IF st = 201
                             THEN Append(licenses, NewLicense(data))
                             ELSE licenses
              /\ resp' = Resp("postLicense", u, IF st = 201 THEN id ELSE 0,
                              st, IF st = 201 THEN {id} ELSE {})
              /\ UNCHANGED <<users, clients, staff, tickets, ticketUpdates,
                             subscriptions, invoices,
                             transactions, inflight, now>>

PatchLicenseStatus(u, id, data) ==
    IF ~isSales(u) THEN 403
    ELSE IF ~ValidLicensePatch(data) THEN 400
    ELSE IF id \notin DOMAIN licenses THEN 404
    ELSE IF LicenseUpdateThrows(id, data) THEN 500
    ELSE 200

PatchLicenseCascading(u, id, data) ==
    LET st == PatchLicenseStatus(u, id, data)
    IN  /\ Idle
        /\ licenses' =
              IF st = 200
              THEN [l \in DOMAIN licenses |->
                      IF licenses[l].subscriptionId =
                             licenses[id].subscriptionId
                      THEN Merge(licenses[l], data) ELSE licenses[l]]
              ELSE licenses
        /\ resp' = Resp("patchLicense", u, id, st,
                        IF st = 200 THEN {id} ELSE {})
        /\ UNCHANGED <<users, clients, staff, tickets, ticketUpdates,
                       subscriptions, invoices,
                       transactions, inflight, now>>

\* PATCH /api/licenses/:id
PatchLicense(u, id, data) ==
    LET st == PatchLicenseStatus(u, id, data)
    IN  /\ Idle
        /\ licenses' = IF st = 200
                       THEN [licenses EXCEPT ![id] = Merge(@, data)]
                       ELSE licenses
        /\ resp' = Resp("patchLicense", u, id, st,
                        IF st = 200 THEN {id} ELSE {})
        /\ UNCHANGED <<users, clients, staff, tickets, ticketUpdates,
                       subscriptions, invoices,
                       transactions, inflight, now>>

\* DatabaseStorage.getExpiringLicenses(daysThreshold)
getExpiringLicenses(daysThreshold) ==
    LET thresholdDate == now + daysThreshold * TicksPerDay
    IN  {l \in DOMAIN licenses :
            /\ licenses[l].status = "active"
            /\ licenses[l].expirationDate * TicksPerDay < thresholdDate}

GetExpiringLicensesNotifying(u) ==
    /\ Idle
    /\ resp' = IF isAuthenticated(u)
               THEN Resp("expiringLicenses", u, 0, 200,
                         getExpiringLicenses(ExpiringThresholdDays))
               ELSE Resp("expiringLicenses", u, 0, 401, {})
    /\ licenses' =
           [l \in DOMAIN licenses |->
               IF isAuthenticated(u)
                  /\ l \in getExpiringLicenses(ExpiringThresholdDays)
               THEN [licenses[l] EXCEPT !.notificationsSent = 1]
               ELSE licenses[l]]
    /\ UNCHANGED <<users, clients, staff, tickets, ticketUpdates,
                   subscriptions, invoices, transactions, inflight, now>>

\* GET /api/dashboard/expiring-licenses
GetExpiringLicenses(u) ==
    /\ Idle
    /\ resp' = IF isAuthenticated(u)
               THEN Resp("expiringLicenses", u, 0, 200,
                         getExpiringLicenses(ExpiringThresholdDays))
               ELSE Resp("expiringLicenses", u, 0, 401, {})
    /\ UNCHANGED <<users, clients, staff, tickets, ticketUpdates,
                   subscriptions, licenses, invoices,
                   transactions, inflight, now>>

\* What a request gets when registerRoutes has no route for it: the answer
\* is given by whatever the application mounts after the API routes.
UnroutedStatus == {200, 404}

\* LicenseAlert.handleRenew: POST /api/licenses/:id/renew.  registerRoutes
\* registers no such route, so no handler touches the store.
handleRenew(u, id) ==
    /\ Idle
    /\ \E st \in UnroutedStatus : resp' = Resp("renew", u, id, st, {})
    /\ UNCHANGED <<users, clients, staff, tickets, ticketUpdates,
                   subscriptions, licenses, invoices,
                   transactions, inflight, now>>

\* LicenseAlert.handleRemind: POST /api/licenses/:id/remind.  registerRoutes
\* registers no such route either: no alert is dispatched and no handler
\* touches the store.
handleRemind(u, id) ==
    /\ Idle
    /\ \E st \in UnroutedStatus : resp' = Resp("remind", u, id, st, {})
    /\ UNCHANGED <<users, clients, staff, tickets, ticketUpdates,
                   subscriptions, licenses, invoices,
                   transactions, inflight, now>>

\* -------------------------------------------------------- subscriptions
SubscriptionFields == {"clientId", "subscriptionType"}

\* insertSubscriptionSchema (of its columns the model keeps the owner and
\* the billing period).
ValidSubscriptionInsert(data) ==
    /\ DOMAIN data = SubscriptionFields
    /\ data.subscriptionType \in SubscriptionType

ValidSubscriptionPatch(data) ==
    /\ DOMAIN data \subseteq SubscriptionFields
    /\ Field(data, "subscriptionType", "monthly") \in SubscriptionType

PostSubscriptionStatus(u, data) ==
    IF ~isSales(u) THEN 403
    ELSE IF ~ValidSubscriptionInsert(data) THEN 400
    ELSE IF data.clientId \notin DOMAIN clients THEN 500
    ELSE 201

\* POST /api/subscriptions
PostSubscription(u, data) ==
    LET st == PostSubscriptionStatus(u, data)
        id == Len(subscriptions) + 1
    IN  /\ Idle
        /\ st = 201 => Len(subscriptions) < MaxSubscriptions
        /\ subscriptions' = IF st = 201 THEN Append(subscriptions, data)
                                        ELSE subscriptions
        /\ resp' = Resp("postSubscription", u, IF st = 201 THEN id ELSE 0, st,
                        IF st = 201 THEN {id} ELSE {})
        /\ UNCHANGED <<users, clients, staff, tickets, ticketUpdates,
                       licenses, invoices, transactions,
                       inflight, now>>

PatchSubscriptionStatus(u, id, data) ==
    IF ~isSales(u) THEN 403
    ELSE IF ~ValidSubscriptionPatch(data) THEN 400
    ELSE IF id \notin DOMAIN subscriptions THEN 404
    ELSE IF "clientId" \in DOMAIN data /\ data.clientId \notin DOMAIN clients
         THEN 500
    ELSE 200

\* PATCH /api/subscriptions/:id
PatchSubscription(u, id, data) ==
    LET st == PatchSubscriptionStatus(u, id, data)
    IN  /\ Idle
        /\ subscriptions' = IF st = 200
                            THEN [subscriptions EXCEPT ![id] = Merge(@, data)]
                            ELSE subscriptions
        /\ resp' = Resp("patchSubscription", u, id, st,
                        IF st = 200 THEN {id} ELSE {})
        /\ UNCHANGED <<users, clients, staff, tickets, ticketUpdates,
                       licenses, invoices, transactions,
                       inflight, now>>

\* -------------------------------------------------------------- invoices
InvoiceFields ==
    {"clientId", "invoiceNumber", "amount", "tax", "totalAmount", "isPaid"}

\* insertInvoiceSchema: client_id, invoice_number, amount and total_amount
\* are NOT NULL without a default.
ValidInvoiceInsert(data) ==
    /\ DOMAIN data \subseteq InvoiceFields
    /\ {"clientId", "invoiceNumber", "amount", "totalAmount"}
           \subseteq DOMAIN data

ValidInvoicePatch(data) == DOMAIN data \subseteq InvoiceFields

NumberInUse(number, except) ==
    \E i \in DOMAIN invoices :
        i # except /\ invoices[i].invoiceNumber = number

\* generateInvoiceNumber: INV-<year>-<count + 1>; the number stands for
\* the whole string.
generateInvoiceNumber == Len(invoices) + 1

NewInvoice(data) ==
    [clientId |-> data.clientId,
     invoiceNumber |-> data.invoiceNumber,
     amount |-> data.amount,
     tax |-> Field(data, "tax", 0),
     totalAmount |-> data.totalAmount,
     isPaid |-> Field(data, "isPaid", FALSE)]

PostInvoiceStatus(u, data) ==
    IF ~isSales(u) THEN 403
    ELSE IF ~ValidInvoiceInsert(data) THEN 400
    ELSE IF \/ data.clientId \notin DOMAIN clients
            \/ NumberInUse(data.invoiceNumber, 0) THEN 500
    ELSE 201

\* POST /api/invoices
PostInvoice(u, body) ==
    LET data == IF "invoiceNumber" \in DOMAIN body
                   /\ body.invoiceNumber = EmptyKey
                THEN [body EXCEPT !.invoiceNumber = generateInvoiceNumber]
                ELSE body
        st == PostInvoiceStatus(u, data)
        id == Len(invoices) + 1
    IN  /\ Idle
        /\ st = 201 => Len(invoices) < MaxInvoices
        /\ invoices' = IF st = 201 THEN Append(invoices, NewInvoice(data))
                                   ELSE invoices
        /\ resp' = Resp("postInvoice", u, IF st = 201 THEN id ELSE 0, st,
                        IF st = 201 THEN {id} ELSE {})
        /\ UNCHANGED <<users, clients, staff, tickets, ticketUpdates,
                       subscriptions, licenses, transactions,
                       inflight, now>>

\* POST /api/invoices without an invoiceNumber, up to the count query of
\* generateInvoiceNumber resolving: request req holds the number it was
\* given and waits at storage.createInvoice.
PostInvoiceGenerate(u, req, body) ==
    /\ Idle
    /\ isSales(u)
    /\ ValidInvoiceInsert(body)
    /\ body.invoiceNumber = EmptyKey
    /\ req \notin {r.req : r \in inflight}
    /\ inflight' = inflight \cup
           {[caller |-> u, req |-> req,
             data |-> [body EXCEPT !.invoiceNumber = generateInvoiceNumber]]}
    /\ UNCHANGED <<users, clients, staff, tickets, ticketUpdates,
                   subscriptions, licenses, invoices, transactions, now, resp>>

\* POST /api/invoices: storage.createInvoice resolves (201) or throws (500)
\* for the request waiting with its generated number.
PostInvoiceInsert(r) ==
    LET st == PostInvoiceStatus(r.caller, r.data)
        id == Len(invoices) + 1
    IN  /\ Idle
        /\ r \in inflight
        /\ st = 201 => Len(invoices) < MaxInvoices
        /\ invoices' = IF st = 201 THEN Append(invoices, NewInvoice(r.data))
                                   ELSE invoices
        /\ inflight' = inflight \ {r}
        /\ resp' = Resp("postInvoice", r.caller, IF st = 201 THEN id ELSE 0,
                        st, IF st = 201 THEN {id} ELSE {})
        /\ UNCHANGED <<users, clients, staff, tickets, ticketUpdates,
                       subscriptions, licenses, transactions, now>>

\* DatabaseStorage.updateInvoice
updateInvoice(id, data) == [invoices EXCEPT ![id] = Merge(@, data)]

PatchInvoiceStatus(u, id, data) ==
    IF ~isSales(u) THEN 403
    ELSE IF ~ValidInvoicePatch(data) THEN 400
    ELSE IF id \notin DOMAIN invoices THEN 404
    ELSE IF \/ /\ "clientId" \in DOMAIN data
               /\ data.clientId \notin DOMAIN clients
            \/ /\ "invoiceNumber" \in DOMAIN data
               /\ NumberInUse(data.invoiceNumber, id) THEN 500
    ELSE 200

\* PATCH /api/invoices/:id
PatchInvoice(u, id, data) ==
    LET st == PatchInvoiceStatus(u, id, data)
    IN  /\ Idle
        /\ invoices' = IF st = 200 THEN updateInvoice(id, data) ELSE invoices
        /\ resp' = Resp("patchInvoice", u, id, st,
                        IF st = 200 THEN {id} ELSE {})
        /\ UNCHANGED <<users, clients, staff, tickets, ticketUpdates,
                       subscriptions, licenses, transactions,
                       inflight, now>>

\* ---------------------------------------------------------- transactions
TransactionFields ==
    {"clientId", "invoiceId", "amount", "status", "transactionDate"}

\* insertTransactionSchema: client_id and amount are required, status is
\* the transaction_status enum.
ValidTransactionInsert(data) ==
    /\ DOMAIN data \subseteq TransactionFields
    /\ {"clientId", "amount"} \subseteq DOMAIN data
    /\ Field(data, "status", "pending") \in TransactionStatus

ValidTransactionPatch(data) ==
    /\ DOMAIN data \subseteq TransactionFields
    /\ Field(data, "status", "pending") \in TransactionStatus

\* The foreign keys of a transaction row.
TransactionThrows(data) ==
    \/ /\ "clientId" \in DOMAIN data
       /\ data.clientId \notin DOMAIN clients
    \/ /\ "invoiceId" \in DOMAIN data
       /\ data.invoiceId # NoInvoice
       /\ data.invoiceId \notin DOMAIN invoices

NewTransaction(data) ==
    [clientId |-> data.clientId,
     invoiceId |-> Field(data, "invoiceId", NoInvoice),
     amount |-> data.amount,
     status |-> Field(data, "status", "pending"),
     transactionDate |-> Field(data, "transactionDate", now)]

PostTransactionStatus(u, data) ==
    IF ~isSales(u) THEN 403
    ELSE IF ~ValidTransactionInsert(data) THEN 400
    ELSE IF TransactionThrows(data) THEN 500
    ELSE 201

\* if (transaction.invoiceId): the created row names an invoice.
MarksInvoicePaidWhenCompleted(transaction) ==
    transaction.invoiceId # NoInvoice /\ transaction.status = "completed"
MarksInvoicePaid(transaction) == transaction.invoiceId # NoInvoice

\* POST /api/transactions, up to and including storage.createTransaction.
\* A created row that names an invoice leaves the handler waiting at
\* storage.updateInvoice: the request is in flight, holding the caller and
\* the row it got back from the insert.
PostTransaction(u, data) ==
    LET st == PostTransactionStatus(u, data)
        id == Len(transactions) + 1
        transaction == NewTransaction(data)
        wait == st = 201 /\ MarksInvoicePaid(transaction)
    IN  /\ Idle
        /\ st = 201 => Len(transactions) < MaxTransactions
        /\ transactions' = IF st = 201 THEN Append(transactions, transaction)
                                       ELSE transactions
        /\ inflight' = IF wait
                       THEN inflight \cup
                                {[caller |-> u, txn |-> id,
                                  invoiceId |-> transaction.invoiceId]}
                       ELSE inflight
        /\ resp' = IF wait THEN resp
                   ELSE Resp("postTransaction", u,
                             IF st = 201 THEN id ELSE 0, st,
                             IF st = 201 THEN {id} ELSE {})
        /\ UNCHANGED <<users, clients, staff, tickets, ticketUpdates,
                       subscriptions, licenses, invoices, now>>

\* POST /api/transactions: storage.updateInvoice(transaction.invoiceId,
\* {isPaid: true}) resolves and the handler answers 201.
PostTransactionUpdateInvoice(r) ==
    /\ Idle
    /\ r \in inflight
    /\ invoices' = updateInvoice(r.invoiceId, [isPaid |-> TRUE])
    /\ inflight' = inflight \ {r}
    /\ resp' = Resp("postTransaction", r.caller, r.txn, 201, {r.txn})
    /\ UNCHANGED <<users, clients, staff, tickets, ticketUpdates,
                   subscriptions, licenses, transactions, now>>

\* POST /api/transactions: storage.updateInvoice rejects (the database call
\* fails); the catch block answers 500.  The inserted row stays: the two
\* writes share no database transaction.
PostTransactionUpdateFails(r) ==
    /\ Idle
    /\ r \in inflight
    /\ inflight' = inflight \ {r}
    /\ resp' = Resp("postTransaction", r.caller, r.txn, 500, {})
    /\ UNCHANGED <<users, clients, staff, tickets, ticketUpdates,
                   subscriptions, licenses, invoices,
                   transactions, now>>

PatchTransactionStatus(u, id, data) ==
    IF ~isSales(u) THEN 403
    ELSE IF ~ValidTransactionPatch(data) THEN 400
    ELSE IF id \notin DOMAIN transactions THEN 404
    ELSE IF TransactionThrows(data) THEN 500
    ELSE 200

\* PATCH /api/transactions/:id
PatchTransaction(u, id, data) ==
    LET st == PatchTransactionStatus(u, id, data)
    IN  /\ Idle
        /\ transactions' = IF st = 200
                           THEN [transactions EXCEPT ![id] = Merge(@, data)]
                           ELSE transactions
        /\ resp' = Resp("patchTransaction", u, id, st,
                        IF st = 200 THEN {id} ELSE {})
        /\ UNCHANGED <<users, clients, staff, tickets, ticketUpdates,
                       subscriptions, licenses, invoices,
                       inflight, now>>

\* ----------------------------------------------------------------- reads
\* DatabaseStorage.getClientByUserId: the first row of a select without an
\* ORDER BY; when several client rows carry the user id, any of them.
getClientByUserId(u) ==
    LET rows == {c \in DOMAIN clients : clients[c].userId = u}
    IN  IF rows = {} THEN {NoClient} ELSE rows

\* if (!client || client.id !== owner): 403 "Access denied".
AccessDeniedOnlyWithoutProfile(client, owner) == client = NoClient
AccessDenied(client, owner) == client = NoClient \/ client # owner

\* The answer of a GET by id of a row owned by client `owner`.
GetById(op, u, id, exists, owner) ==
    /\ Idle
    /\ \E client \in getClientByUserId(u) :
           resp' = IF ~isAuthenticated(u) THEN Resp(op, u, id, 401, {})
                   ELSE IF ~exists THEN Resp(op, u, id, 404, {})
                   ELSE IF Role(u) = "client" /\ AccessDenied(client, owner)
                        THEN Resp(op, u, id, 403, {})
                   ELSE Resp(op, u, id, 200, {id})

\* GET /api/subscriptions/:id
GetSubscription(u, id) ==
    /\ GetById("getSubscription", u, id, id \in DOMAIN subscriptions,
               IF id \in DOMAIN subscriptions
               THEN subscriptions[id].clientId ELSE NoClient)
    /\ UNCHANGED <<users, clients, staff, tickets, ticketUpdates,
                   subscriptions, licenses, invoices,
                   transactions, inflight, now>>

\* GET /api/licenses/:id: the owner is the client of the license's
\* subscription (the foreign key keeps that row present).
GetLicense(u, id) ==
    /\ GetById("getLicense", u, id, id \in DOMAIN licenses,
               IF id \in DOMAIN licenses
               THEN subscriptions[licenses[id].subscriptionId].clientId
               ELSE NoClient)
    /\ UNCHANGED <<users, clients, staff, tickets, ticketUpdates,
                   subscriptions, licenses, invoices,
                   transactions, inflight, now>>

\* GET /api/invoices/:id
GetInvoice(u, id) ==
    /\ GetById("getInvoice", u, id, id \in DOMAIN invoices,
               IF id \in DOMAIN invoices
               THEN invoices[id].clientId ELSE NoClient)
    /\ UNCHANGED <<users, clients, staff, tickets, ticketUpdates,
                   subscriptions, licenses, invoices,
                   transactions, inflight, now>>

\* GET /api/transactions/:id
GetTransaction(u, id) ==
    /\ GetById("getTransaction", u, id, id \in DOMAIN transactions,
               IF id \in DOMAIN transactions
               THEN transactions[id].clientId ELSE NoClient)
    /\ UNCHANGED <<users, clients, staff, tickets, ticketUpdates,
                   subscriptions, licenses, invoices,
                   transactions, inflight, now>>

\* get<Rows>ByClient(clientId) over a table.
ByClient(table, clientId) ==
    {i \in DOMAIN table : table[i].clientId = clientId}

RecentLimit == 20

\* getRecentTransactions(limit): the rows with fewer than `limit` newer
\* ones, by transaction_date (rows of one date at the cut: all of them).
getRecentTransactions(limit) ==
    {t \in DOMAIN transactions :
        Cardinality({o \in DOMAIN transactions :
                        transactions[o].transactionDate
                            > transactions[t].transactionDate}) < limit}

\* The answer of a list endpoint: q is the clientId query parameter (0 when
\* absent or not a number), staffRows what the other roles get.
GetList(op, u, q, table, staffRows) ==
    /\ Idle
    /\ \E client \in getClientByUserId(u) :
           resp' = IF ~isAuthenticated(u) THEN Resp(op, u, q, 401, {})
                   ELSE IF q # 0 THEN Resp(op, u, q, 200, ByClient(table, q))
                   ELSE IF Role(u) = "client"
                        THEN IF client = NoClient THEN Resp(op, u, q, 403, {})
                             ELSE Resp(op, u, q, 200, ByClient(table, client))
                   ELSE Resp(op, u, q, 200, staffRows)

\* GET /api/subscriptions
GetSubscriptions(u, q) ==
    /\ GetList("getSubscriptions", u, q, subscriptions, {})
    /\ UNCHANGED <<users, clients, staff, tickets, ticketUpdates,
                   subscriptions, licenses, invoices,
                   transactions, inflight, now>>

\* GET /api/invoices
GetInvoices(u, q) ==
    /\ GetList("getInvoices", u, q, invoices, {})
    /\ UNCHANGED <<users, clients, staff, tickets, ticketUpdates,
                   subscriptions, licenses, invoices,
                   transactions, inflight, now>>

\* GET /api/transactions
GetTransactions(u, q) ==
    /\ GetList("getTransactions", u, q, transactions,
               getRecentTransactions(RecentLimit))
    /\ UNCHANGED <<users, clients, staff, tickets, ticketUpdates,
                   subscriptions, licenses, invoices,
                   transactions, inflight, now>>

\* --------------------------------------------------------------- tickets
TicketFields == {"clientId", "status", "assignedTo"}

\* insertTicketSchema (title, description and priority are not modelled):
\* client_id is required, status is the ticket_status enum.
ValidTicketInsert(data) ==
    /\ DOMAIN data \subseteq TicketFields
    /\ "clientId" \in DOMAIN data
    /\ Field(data, "status", "new") \in TicketStatus

ValidTicketPatch(data) ==
    /\ DOMAIN data \subseteq TicketFields
    /\ Field(data, "status", "new") \in TicketStatus

\* The foreign keys of a ticket row.
TicketThrows(data) ==
    \/ /\ "clientId" \in DOMAIN data
       /\ data.clientId \notin DOMAIN clients
    \/ /\ "assignedTo" \in DOMAIN data
       /\ data.assignedTo # NoStaff
       /\ data.assignedTo \notin DOMAIN staff

\* createTicket
NewTicket(data) ==
    [clientId |-> data.clientId,
     status |-> Field(data, "status", "new"),
     assignedTo |-> Field(data, "assignedTo", NoStaff),
     closedAt |-> NoDate]

\* createTicketUpdate: the row keeps the ticket and the author.
NewTicketUpdate(ticketId, u) == [ticketId |-> ticketId, userId |-> u]

\* DatabaseStorage.getStaffByUserId: the first row of a select without an
\* ORDER BY.
getStaffByUserId(u) ==
    LET rows == {m \in DOMAIN staff : staff[m].userId = u}
    IN  IF rows = {} THEN {NoStaff} ELSE rows

isSupport(u) == u # Anon /\ Role(u) \in {"support", "admin"}

\* if (!staffMember || (ticket.assignedTo && ticket.assignedTo !==
\* staffMember.id)): 403 "Ticket not assigned to you".
NotAssignedToYou(staffMember, ticket) ==
    \/ staffMember = NoStaff
    \/ ticket.assignedTo # NoStaff /\ ticket.assignedTo # staffMember

TicketDeniedNever(u, client, staffMember, ticket) == FALSE
\* The role checks GET /api/tickets/:id and POST /api/tickets/:id/updates
\* share, with the rows the profile lookups found.
TicketDenied(u, client, staffMember, ticket) ==
    \/ Role(u) = "client" /\ AccessDenied(client, ticket.clientId)
    \/ Role(u) = "support" /\ NotAssignedToYou(staffMember, ticket)

\* POST /api/tickets
PostTicket(u, body) ==
    \E client \in getClientByUserId(u) :
        LET data == IF Role(u) = "client" /\ client # NoClient
                    THEN [body EXCEPT !.clientId = client] ELSE body
            st == IF ~isAuthenticated(u) THEN 401
                  ELSE IF ~ValidTicketInsert(body) THEN 400
                  ELSE IF Role(u) = "client" /\ client = NoClient THEN 403
                  ELSE IF TicketThrows(data) THEN 500
                  ELSE 201
            id == Len(tickets) + 1
        IN  /\ Idle
            /\ st = 201 => /\ Len(tickets) < MaxTickets
                           /\ Len(ticketUpdates) < MaxTicketUpdates
            /\ tickets' = IF st = 201 THEN Append(tickets, NewTicket(data))
                                      ELSE tickets
            /\ ticketUpdates' =
                   IF st = 201
                   THEN Append(ticketUpdates, NewTicketUpdate(id, u))
                   ELSE ticketUpdates
            /\ resp' = Resp("postTicket", u, IF st = 201 THEN id ELSE 0, st,
                            IF st = 201 THEN {id} ELSE {})
            /\ UNCHANGED <<users, clients, staff, subscriptions, licenses,
                           invoices, transactions, inflight, now>>

PatchTicketStatus(u, id, data) ==
    IF ~isSupport(u) THEN 403
    ELSE IF ~ValidTicketPatch(data) THEN 400
    ELSE IF id \notin DOMAIN tickets THEN 404
    ELSE IF TicketThrows(data) THEN 500
    ELSE 200

\* The ticket updates PATCH /api/tickets/:id writes: one for a status in
\* the body, one for an assignee in the body.
PatchTicketUpdates(u, id, data) ==
    (IF "status" \in DOMAIN data THEN <<NewTicketUpdate(id, u)>> ELSE << >>)
    \o (IF Field(data, "assignedTo", NoStaff) # NoStaff
        THEN <<NewTicketUpdate(id, u)>> ELSE << >>)

\* PATCH /api/tickets/:id
PatchTicket(u, id, data) ==
    LET st == PatchTicketStatus(u, id, data)
        closes == Field(data, "status", "new") \in {"resolved", "closed"}
        ticketData == IF closes THEN data @@ [closedAt |-> now] ELSE data
        updates == PatchTicketUpdates(u, id, data)
    IN  /\ Idle
        /\ st = 200 =>
               Len(ticketUpdates) + Len(updates) <= MaxTicketUpdates
        /\ tickets' = IF st = 200
                      THEN [tickets EXCEPT ![id] = Merge(@, ticketData)]
                      ELSE tickets
        /\ ticketUpdates' = IF st = 200 THEN ticketUpdates \o updates
                                        ELSE ticketUpdates
        /\ resp' = Resp("patchTicket", u, id, st,
                        IF st = 200 THEN {id} ELSE {})
        /\ UNCHANGED <<users, clients, staff, subscriptions, licenses,
                       invoices, transactions, inflight, now>>

\* POST /api/tickets/:id/updates
PostTicketUpdate(u, id) ==
    \E client \in getClientByUserId(u), staffMember \in getStaffByUserId(u) :
        LET st == IF ~isAuthenticated(u) THEN 401
                  ELSE IF id \notin DOMAIN tickets THEN 404
                  ELSE IF TicketDenied(u, client, staffMember, tickets[id])
                       THEN 403
                  ELSE 201
            reopen == st = 201 /\ Role(u) = "client"
                          /\ tickets[id].status # "new"
        IN  /\ Idle
            /\ st = 201 => Len(ticketUpdates) < MaxTicketUpdates
            /\ ticketUpdates' =
                   IF st = 201
                   THEN Append(ticketUpdates, NewTicketUpdate(id, u))
                   ELSE ticketUpdates
            /\ tickets' = IF reopen
                          THEN [tickets EXCEPT ![id].status = "new"]
                          ELSE tickets
            /\ resp' = Resp("postTicketUpdate", u, id, st,
                            IF st = 201 THEN {id} ELSE {})
            /\ UNCHANGED <<users, clients, staff, subscriptions, licenses,
                           invoices, transactions, inflight, now>>

\* GET /api/tickets/:id
GetTicket(u, id) ==
    \E client \in getClientByUserId(u), staffMember \in getStaffByUserId(u) :
        LET st == IF ~isAuthenticated(u) THEN 401
                  ELSE IF id \notin DOMAIN tickets THEN 404
                  ELSE IF TicketDenied(u, client, staffMember, tickets[id])
                       THEN 403
                  ELSE 200
        IN  /\ Idle
            /\ resp' = Resp("getTicket", u, id, st,
                            IF st = 200 THEN {id} ELSE {})
            /\ UNCHANGED <<users, clients, staff, tickets, ticketUpdates,
                           subscriptions, licenses, invoices, transactions,
                           inflight, now>>

getTicketsByAssignee(staffId) ==
    {t \in DOMAIN tickets : tickets[t].assignedTo = staffId}

\* getRecentTickets(limit): the newest rows; ids grow with created_at.
getRecentTickets(limit) ==
    {t \in DOMAIN tickets : t > Len(tickets) - limit}

\* GET /api/tickets?clientId=q&assignedTo=a (0: the parameter is absent or
\* 0, which the handler takes for absent)
GetTickets(u, q, a) ==
    \E client \in getClientByUserId(u), staffMember \in getStaffByUserId(u) :
        LET denied == ~isAuthenticated(u)
            noProfile ==
                /\ q = 0 /\ a = 0
                /\ \/ Role(u) = "client" /\ client = NoClient
                   \/ Role(u) = "support" /\ staffMember = NoStaff
            rows == IF q # 0 THEN ByClient(tickets, q)
                    ELSE IF a # 0 THEN getTicketsByAssignee(a)
                    ELSE IF Role(u) = "client"
                         THEN ByClient(tickets, client)
                    ELSE IF Role(u) = "support"
                         THEN getTicketsByAssignee(staffMember)
                    ELSE getRecentTickets(RecentLimit)
        IN  /\ Idle
            /\ resp' = IF denied THEN Resp("getTickets", u, q, 401, {})
                       ELSE IF noProfile
                            THEN Resp("getTickets", u, q, 403, {})
                       ELSE Resp("getTickets", u, q, 200, rows)
            /\ UNCHANGED <<users, clients, staff, tickets, ticketUpdates,
                           subscriptions, licenses, invoices, transactions,
                           inflight, now>>

\* ------------------------------------------------------------- dashboard
\* new Date(currentDate.getFullYear(), currentDate.getMonth(), 1): midnight
\* of the first day of the month of instant t.
firstDayOfMonth(t) ==
    LET ymd == YMD(Epoch.year, 1, (t \div TicksPerDay) + Epoch.offset)
    IN  (DaysBefore(ymd[1], ymd[2]) - Epoch.offset) * TicksPerDay

RECURSIVE SumAmounts(_)
\* sum(amount) over a set of transaction rows; no row: NULL, returned as 0.
SumAmounts(rows) ==
    IF rows = {} THEN 0
    ELSE LET t == CHOOSE r \in rows : TRUE
         IN  transactions[t].amount + SumAmounts(rows \ {t})

getClientCount == Len(clients)

getActiveLicensesCount ==
    Cardinality({l \in DOMAIN licenses : licenses[l].status = "active"})

getOpenTicketsCount ==
    Cardinality({t \in DOMAIN tickets :
                    tickets[t].status \in {"new", "in_progress"}})

getMonthlyRevenue ==
    SumAmounts({t \in DOMAIN transactions :
                   /\ transactions[t].transactionDate >= firstDayOfMonth(now)
                   /\ transactions[t].status = "completed"})

StatNames ==
    {"totalClients", "activeSubscriptions", "openTickets", "monthlyRevenue"}

StatQuery(name) ==
    CASE name = "totalClients" -> getClientCount
      [] name = "activeSubscriptions" -> getActiveLicensesCount
      [] name = "openTickets" -> getOpenTicketsCount
      [] OTHER -> getMonthlyRevenue

\* Each query runs in a try/catch of its own: one that throws leaves its
\* variable at the initial 0.
StatValue(name, failing) == IF name \in failing THEN 0 ELSE StatQuery(name)

\* The outer catch (500) is reached by no throwing query.
DashboardStatsStatusAborting(failing) == IF failing = {} THEN 200 ELSE 500
DashboardStatsStatus(failing) == 200

\* GET /api/dashboard/stats, the queries of `failing` throwing.  The body
\* is the set of <<name, value>> pairs of the JSON object.
GetDashboardStats(u, failing) ==
    LET st == IF isAuthenticated(u) THEN DashboardStatsStatus(failing)
                                    ELSE 401
    IN  /\ Idle
        /\ resp' = Resp("dashboardStats", u, 0, st,
                        IF st = 200
                        THEN {<<n, StatValue(n, failing)>> : n \in StatNames}
                        ELSE {})
        /\ UNCHANGED <<users, clients, staff, tickets, ticketUpdates,
                       subscriptions, licenses, invoices, transactions,
                       inflight, now>>

DashboardRecentLimit == 5

\* GET /api/dashboard/recent-tickets
GetRecentTickets(u) ==
    /\ Idle
    /\ resp' = IF isAuthenticated(u)
               THEN Resp("recentTickets", u, 0, 200,
                         getRecentTickets(DashboardRecentLimit))
               ELSE Resp("recentTickets", u, 0, 401, {})
    /\ UNCHANGED <<users, clients, staff, tickets, ticketUpdates,
                   subscriptions, licenses, invoices, transactions,
                   inflight, now>>

\* GET /api/dashboard/recent-transactions
GetRecentTransactions(u) ==
    /\ Idle
    /\ resp' = IF isAuthenticated(u)
               THEN Resp("recentTransactions", u, 0, 200,
                         getRecentTransactions(DashboardRecentLimit))
               ELSE Resp("recentTransactions", u, 0, 401, {})
    /\ UNCHANGED <<users, clients, staff, tickets, ticketUpdates,
                   subscriptions, licenses, invoices, transactions,
                   inflight, now>>

\* --------------------------------------------------- accounts and clients
UserRole == {"admin", "sales", "support", "client"}

\* DatabaseStorage.getUserByUsername
getUserByUsername(username) ==
    {u \in DOMAIN users : users[u].username = username}

\* POST /api/register: a taken username is a 400 (a taken email, checked the
\* same way on a second column, is not modelled); createUser throws on a
\* role outside the user_role enum; otherwise the user is created and
\* logged in.
RegisterStatus(body) ==
    IF getUserByUsername(body.username) # {} THEN 400
    ELSE IF Field(body, "role", "client") \notin UserRole THEN 500
    ELSE 201

\* POST /api/register.  The body is spread into createUser, its role
\* included (users.role defaults to 'client'); a client gets a client
\* record, a support user or an administrator a staff record, and
\* req.login makes the new user the caller's session.
Register(u, body) ==
    LET st == RegisterStatus(body)
        id == Len(users) + 1
        role == Field(body, "role", "client")
    IN  /\ Idle
        /\ st = 201 => Len(users) < MaxUsers
        /\ (st = 201 /\ role = "client") => Len(clients) < MaxClients
        /\ resp' = IF st = 201 THEN Resp("register", u, id, 201, {id})
                   ELSE Resp("register", u, 0, st, {})
        /\ users' = IF st = 201
                    THEN Append(users, [username |-> body.username,
                                        role |-> role])
                    ELSE users
        /\ clients' = IF st = 201 /\ role = "client"
                      THEN Append(clients, [userId |-> id])
                      ELSE clients
        /\ staff' = IF st = 201 /\ role \in {"support", "admin"}
                    THEN Append(staff, [userId |-> id])
                    ELSE staff
        /\ UNCHANGED <<tickets, ticketUpdates, subscriptions, licenses,
                       invoices, transactions, inflight, now>>

ClientFields == {"userId"}

\* insertClientSchema (of its columns the model keeps the backing user):
\* user_id is a required integer.
ValidClientInsert(data) ==
    /\ DOMAIN data \subseteq ClientFields
    /\ "userId" \in DOMAIN data
    /\ data.userId \in Int

\* insertClientSchema.partial()
ValidClientPatch(data) ==
    /\ DOMAIN data \subseteq ClientFields
    /\ "userId" \in DOMAIN data => data.userId \in Int

\* clients.user_id REFERENCES users(id); the column is not UNIQUE.
ClientThrows(data) ==
    /\ "userId" \in DOMAIN data
    /\ data.userId \notin DOMAIN users

PostClientStatus(u, data) ==
    IF ~isSales(u) THEN 403
    ELSE IF ~ValidClientInsert(data) THEN 400
    ELSE IF ClientThrows(data) THEN 500
    ELSE 201

\* POST /api/clients
PostClient(u, body) ==
    LET st == PostClientStatus(u, body)
        id == Len(clients) + 1
    IN  /\ Idle
        /\ st = 201 => Len(clients) < MaxClients
        /\ resp' = IF st = 201 THEN Resp("postClient", u, id, 201, {id})
                   ELSE Resp("postClient", u, 0, st, {})
        /\ clients' = IF st = 201 THEN Append(clients, body) ELSE clients
        /\ UNCHANGED <<users, staff, tickets, ticketUpdates, subscriptions,
                       licenses, invoices, transactions, inflight, now>>

PatchClientStatus(u, id, data) ==
    IF ~isSales(u) THEN 403
    ELSE IF ~ValidClientPatch(data) THEN 400
    ELSE IF id \notin DOMAIN clients THEN 404
    ELSE IF ClientThrows(data) THEN 500
    ELSE 200

\* PATCH /api/clients/:id (updateClient)
PatchClient(u, id, data) ==
    LET st == PatchClientStatus(u, id, data)
    IN  /\ Idle
        /\ resp' = Resp("patchClient", u, id, st,
                        IF st = 200 THEN {id} ELSE {})
        /\ clients' = IF st = 200
                      THEN [clients EXCEPT ![id] = Merge(@, data)]
                      ELSE clients
        /\ UNCHANGED <<users, staff, tickets, ticketUpdates, subscriptions,
                       licenses, invoices, transactions, inflight, now>>

\* ------------------------------------------------------- initial state
\* A store in which an administrator, a sales user, a support user and two
\* clients have registered (POST /api/register gives the administrator and
\* the support user a staff record, each client a client record) and each
\* client holds one subscription.
SeedUsers ==
    <<[username |-> 1, role |-> "admin"], [username |-> 2, role |-> "sales"],
      [username |-> 3, role |-> "support"], [username |-> 4, role |-> "client"],
      [username |-> 5, role |-> "client"]>>

Init ==
    /\ users = SeedUsers
    /\ clients = <<[userId |-> 4], [userId |-> 5]>>
    /\ staff = <<[userId |-> 1], [userId |-> 3]>>
    /\ subscriptions = <<[clientId |-> 1, subscriptionType |-> "monthly"],
                         [clientId |-> 2, subscriptionType |-> "yearly"]>>
    /\ licenses = << >>
    /\ invoices = << >>
    /\ transactions = << >>
    /\ tickets = << >>
    /\ ticketUpdates = << >>
    /\ inflight = {}
    /\ now = TicksPerDay
    /\ resp = NoResp

Callers == {Anon} \cup DOMAIN users

\* ------------------------------------------- license lifecycle (Spec)
LicenseCallers == {2, 4}

LicenseInserts ==
    {[subscriptionId |-> 1, licenseKey |-> EmptyKey, activationDate |-> 0,
      expirationDate |-> d] : d \in Dates}
    \cup {[subscriptionId |-> 1, licenseKey |-> EmptyKey, status |-> s,
           activationDate |-> 0, expirationDate |-> 1] :
              s \in {"pending", "bogus"}}
    \cup {[subscriptionId |-> 1, licenseKey |-> 1, activationDate |-> 0,
           expirationDate |-> 1]}

LicensePatches ==
    {[status |-> s] : s \in LicenseStatus \cup {"bogus"}}
    \cup {[expirationDate |-> 15, notificationsSent |-> 0],
          [notificationsSent |-> 1], [licenseKey |-> 1]}

Next ==
    \/ Tick
    \/ Respond
    \/ \E u \in LicenseCallers :
        \/ \E d \in LicenseInserts : PostLicense(u, d)
        \/ \E id \in 1..MaxLicenses, d \in LicensePatches :
               PatchLicense(u, id, d)
        \/ GetExpiringLicenses(u)
        \/ \E id \in 1..MaxLicenses : handleRenew(u, id)
        \/ \E id \in 1..MaxLicenses : handleRemind(u, id)

Spec == Init /\ [][Next]_vars

\* The same requests on a server that keeps running: its clock advances
\* and every request it has taken is answered.  Nothing obliges a user to
\* send a request.
FairSpec == Spec /\ WF_vars(Tick) /\ WF_vars(Respond)

\* ------------------------------------------- billing (BillingSpec)
BillingCallers == {2, 4}

InvoiceInserts ==
    {[clientId |-> 1, invoiceNumber |-> EmptyKey, amount |-> 100, tax |-> 8,
      totalAmount |-> 108]}

InvoicePatches == {[isPaid |-> FALSE], [isPaid |-> TRUE]}

TransactionInserts ==
    {[clientId |-> 1, invoiceId |-> i, amount |-> 100, status |-> s] :
        i \in 1..MaxInvoices, s \in TransactionStatus \cup {"bogus"}}
    \cup {[clientId |-> 1, amount |-> 100]}

TransactionPatches == {[status |-> "completed"], [invoiceId |-> 1]}

BillingNext ==
    \/ Respond
    \/ \E u \in BillingCallers, d \in InvoiceInserts : PostInvoice(u, d)
    \/ \E u \in BillingCallers, id \in 1..MaxInvoices, d \in InvoicePatches :
           PatchInvoice(u, id, d)
    \/ \E u \in BillingCallers, d \in TransactionInserts :
           PostTransaction(u, d)
    \/ \E u \in BillingCallers, id \in 1..MaxTransactions,
          d \in TransactionPatches : PatchTransaction(u, id, d)
    \/ \E r \in inflight : PostTransactionUpdateInvoice(r)
    \/ \E r \in inflight : PostTransactionUpdateFails(r)

BillingSpec == Init /\ [][BillingNext]_vars

\* ----------------------------------- entitlement mutations (GateSpec)
\* One request body per mutating route, sent by every caller.
SubscriptionSample == [clientId |-> 2, subscriptionType |-> "monthly"]
LicenseSample ==
    [subscriptionId |-> 2, licenseKey |-> EmptyKey, activationDate |-> 0,
     expirationDate |-> 15]
InvoiceSample ==
    [clientId |-> 2, invoiceNumber |-> EmptyKey, amount |-> 100,
     totalAmount |-> 100]
TransactionSample == [clientId |-> 2, invoiceId |-> 1, amount |-> 100]

Mutations(u) ==
    \/ PostSubscription(u, SubscriptionSample)
    \/ PatchSubscription(u, 1, [clientId |-> 2])
    \/ PostLicense(u, LicenseSample)
    \/ PatchLicense(u, 1, [status |-> "revoked"])
    \/ PostInvoice(u, InvoiceSample)
    \/ PatchInvoice(u, 1, [isPaid |-> FALSE])
    \/ PostTransaction(u, TransactionSample)
    \/ PatchTransaction(u, 1, [status |-> "refunded"])

GateNext ==
    \/ Respond
    \/ \E u \in Callers : Mutations(u)
    \/ \E r \in inflight : PostTransactionUpdateInvoice(r)
    \/ \E r \in inflight : PostTransactionUpdateFails(r)

GateSpec == Init /\ [][GateNext]_vars

\* ------------------------------------------- scoped reads (AccessSpec)
\* The sales user fills the store; everyone reads.
StaffCallers == {2}

AccessNext ==
    \/ Respond
    \/ \E u \in StaffCallers : Mutations(u)
    \/ \E r \in inflight : PostTransactionUpdateInvoice(r)
    \/ \E u \in Callers, id \in 1..MaxSubscriptions : GetSubscription(u, id)
    \/ \E u \in Callers, id \in 1..MaxLicenses : GetLicense(u, id)
    \/ \E u \in Callers, id \in 1..MaxInvoices : GetInvoice(u, id)
    \/ \E u \in Callers, id \in 1..MaxTransactions : GetTransaction(u, id)
    \/ \E u \in Callers, q \in {0} \cup DOMAIN clients : GetSubscriptions(u, q)
    \/ \E u \in Callers, q \in {0} \cup DOMAIN clients : GetInvoices(u, q)
    \/ \E u \in Callers, q \in {0} \cup DOMAIN clients : GetTransactions(u, q)

AccessSpec == Init /\ [][AccessNext]_vars

\* --------------------------------------------- dashboard (DashboardSpec)
\* Staff and a client fill the store; everyone opens the dashboard.
DashboardCallers == {Anon, 3, 4}

\* Completed transactions dated 2023-12-21, 2024-01-30 and 2024-02-14, and
\* a pending one dated now (2024-01-31).
RevenueInserts ==
    {[clientId |-> 1, amount |-> 100, status |-> "completed",
      transactionDate |-> d * TicksPerDay] : d \in {-40, 0, 15}}
    \cup {[clientId |-> 1, amount |-> 50]}

DashboardLicense ==
    [subscriptionId |-> 1, licenseKey |-> EmptyKey, activationDate |-> 0,
     expirationDate |-> 1]

DashboardNext ==
    \/ Respond
    \/ \E u \in StaffCallers : PostLicense(u, DashboardLicense)
    \/ \E u \in StaffCallers : PatchLicense(u, 1, [status |-> "revoked"])
    \/ \E u \in StaffCallers, d \in RevenueInserts : PostTransaction(u, d)
    \/ \E u \in StaffCallers :
           PatchTransaction(u, 1, [status |-> "completed"])
    \/ PostTicket(4, [clientId |-> 1])
    \/ PatchTicket(3, 1, [status |-> "resolved"])
    \/ \E u \in DashboardCallers, failing \in SUBSET StatNames :
           GetDashboardStats(u, failing)
    \/ \E u \in DashboardCallers : GetExpiringLicenses(u)
    \/ \E u \in DashboardCallers : GetRecentTickets(u)
    \/ \E u \in DashboardCallers : GetRecentTransactions(u)

DashboardSpec == Init /\ [][DashboardNext]_vars

\* ------------------------------------------------ tickets (TicketSpec)
\* A client and the administrator open tickets, the administrator's
\* assigned to the administrator's own staff record; the support user and
\* the others read and change them, and the sales user hands the first
\* client record to the other client's user.
TicketCallers == {Anon, 1, 3, 4, 5}

TicketPatches ==
    {[status |-> "in_progress"], [status |-> "resolved"], [assignedTo |-> 2]}

TicketNext ==
    \/ Respond
    \/ PostTicket(4, [clientId |-> 2])
    \/ PostTicket(1, [clientId |-> 1, assignedTo |-> 1])
    \/ PatchClient(2, 1, [userId |-> 5])
    \/ \E u \in TicketCallers, id \in 1..MaxTickets, d \in TicketPatches :
           PatchTicket(u, id, d)
    \/ \E u \in TicketCallers, id \in 1..MaxTickets : PostTicketUpdate(u, id)
    \/ \E u \in TicketCallers, id \in 1..MaxTickets : GetTicket(u, id)
    \/ \E u \in TicketCallers, q \in {0} \cup DOMAIN clients,
          a \in {0} \cup DOMAIN staff : GetTickets(u, q, a)

TicketSpec == Init /\ [][TicketNext]_vars

\* --------------------------------- registration and clients (AccountSpec)
\* Visitors register, with and without a role of their choice; the sales
\* user, a client and whoever has registered create and move client
\* records and create licenses.
RegisterBodies ==
    {[username |-> 6], [username |-> 6, role |-> "admin"],
     [username |-> 7, role |-> "sales"], [username |-> 5, role |-> "admin"],
     [username |-> 7, role |-> "owner"]}

AccountCallers == {2, 4, 6, 7}

ClientInserts == {[userId |-> 2], [userId |-> 4], [userId |-> 9]}

ClientPatches == {[userId |-> 5]}

\* A body without the required fields.
EmptyBody == << >>

AccountNext ==
    \/ Respond
    \/ \E b \in RegisterBodies : Register(Anon, b)
    \/ \E u \in AccountCallers \cap DOMAIN users :
        \/ \E d \in ClientInserts : PostClient(u, d)
        \/ PostClient(u, EmptyBody)
        \/ \E id \in 1..MaxClients, d \in ClientPatches :
               PatchClient(u, id, d)
        \/ PostLicense(u, LicenseSample)

AccountSpec == Init /\ [][AccountNext]_vars

\* ------------------------------ sequential invoicing (NumberingSpec)
\* Invoices created, changed and read one request at a time, some with a
\* number the caller supplies in the server's own format, some
\* auto-numbered.
NumberingCallers == {Anon, 2, 4}

NumberedInvoices ==
    {[clientId |-> c, invoiceNumber |-> n, amount |-> 100,
      totalAmount |-> 100] : c \in {1, 2}, n \in {EmptyKey, 1, 2, 3}}

NumberingPatches == {[invoiceNumber |-> 1], [isPaid |-> TRUE]}

NumberingNext ==
    \/ Respond
    \/ \E u \in NumberingCallers, d \in NumberedInvoices : PostInvoice(u, d)
    \/ \E u \in NumberingCallers, id \in 1..MaxInvoices,
          d \in NumberingPatches : PatchInvoice(u, id, d)
    \/ \E u \in NumberingCallers, id \in 1..MaxInvoices : GetInvoice(u, id)

NumberingSpec == Init /\ [][NumberingNext]_vars

\* ----------------------------------- concurrent creations (CreateSpec)
\* Sales requests that leave the key or the number to the server, the
\* invoice requests interleaved at the count query and the insert.
CreateCallers == {2}

CreateLicenseInserts ==
    {[subscriptionId |-> c, licenseKey |-> EmptyKey, activationDate |-> 0,
      expirationDate |-> 15] : c \in {1, 2}}

\* A license body that expires before it is activated, and an update that
\* moves the expiration before any activation.
BackdatedLicense ==
    [subscriptionId |-> 1, licenseKey |-> EmptyKey, activationDate |-> 15,
     expirationDate |-> 1]
BackdatingPatch == [expirationDate |-> -2]

\* Invoice bodies whose totalAmount is, and is not, amount + tax.
CreateInvoiceInserts ==
    {[clientId |-> 1, invoiceNumber |-> EmptyKey, amount |-> 100, tax |-> 8,
      totalAmount |-> t] : t \in {108, 100}}

CreateNext ==
    \/ Respond
    \/ \E u \in CreateCallers, d \in CreateLicenseInserts : PostLicense(u, d)
    \/ \E u \in CreateCallers : PostLicense(u, BackdatedLicense)
    \/ \E u \in CreateCallers, id \in 1..MaxLicenses :
           PatchLicense(u, id, BackdatingPatch)
    \/ \E u \in CreateCallers, req \in 1..MaxRequests,
          d \in CreateInvoiceInserts : PostInvoiceGenerate(u, req, d)
    \/ \E r \in inflight : PostInvoiceInsert(r)

CreateSpec == Init /\ [][CreateNext]_vars

\* ------------------------------------------------- claims on licenses
\* The step answers a request `op` (the answer is new).
Answers(op) == Idle /\ resp'.op = op

\* C1: once a license is revoked, no operation gives it another status.
C1_RevokedIsTerminal ==
    [][\A l \in DOMAIN licenses :
          licenses[l].status = "revoked" => licenses'[l].status = "revoked"]_vars

LifecycleTransitions ==
    {<<"pending", "active">>, <<"active", "revoked">>, <<"active", "expired">>}

\* C2: every change of a license's status is pending -> active,
\* active -> revoked or active -> expired.
C2_OnlyLifecycleTransitions ==
    [][\A l \in DOMAIN licenses :
          licenses'[l].status # licenses[l].status =>
              <<licenses[l].status, licenses'[l].status>>
                  \in LifecycleTransitions]_vars

\* -------------------------------------------------- claims on billing
\* The invoice named by the transaction row a POST /api/transactions
\* created: the in-flight request ending in this step holds it, a request
\* answered at once has just stored it.
CreatedInvoiceId ==
    IF inflight \ inflight' # {}
    THEN (CHOOSE r \in inflight \ inflight' : TRUE).invoiceId
    ELSE transactions'[resp'.id].invoiceId

\* C3: a POST /api/transactions with invoiceId X that succeeds leaves
\* invoice X paid as the 201 is sent, whatever the transaction's status.
C3_TransactionMarksInvoicePaid ==
    [][(Answers("postTransaction") /\ resp'.status = 201
            /\ CreatedInvoiceId # NoInvoice)
          => invoices'[CreatedInvoiceId].isPaid]_vars

C3_Witness ==
    /\ resp.op = "postTransaction" /\ resp.status = 201
    /\ transactions[resp.id].status = "failed"
    /\ transactions[resp.id].invoiceId # NoInvoice
    /\ invoices[transactions[resp.id].invoiceId].isPaid

\* C4: the transaction insert and the invoice's isPaid update are atomic:
\* a row that names an invoice appears together with isPaid = true, and a
\* request that fails leaves no row behind.
C4_AtomicReconciliation ==
    [][/\ \A t \in DOMAIN transactions' :
            (t \notin DOMAIN transactions
                 /\ transactions'[t].invoiceId # NoInvoice)
            => invoices'[transactions'[t].invoiceId].isPaid
       /\ (Answers("postTransaction") /\ resp'.status = 500)
            => resp'.id \notin DOMAIN transactions']_vars

\* ---------------------------------------------- claims on the policy
ClientsOf(u) == {c \in DOMAIN clients : clients[c].userId = u}

GetByIdOps == {"getSubscription", "getLicense", "getInvoice", "getTransaction"}

RowExists(op, id) ==
    id \in DOMAIN (CASE op = "getSubscription" -> subscriptions
                     [] op = "getLicense" -> licenses
                     [] op = "getInvoice" -> invoices
                     [] OTHER -> transactions)

OwnerOf(op, id) ==
    CASE op = "getSubscription" -> subscriptions[id].clientId
      [] op = "getLicense" ->
             subscriptions[licenses[id].subscriptionId].clientId
      [] op = "getInvoice" -> invoices[id].clientId
      [] OTHER -> transactions[id].clientId

\* A client-role caller asked for an existing row of another client.
ForeignRead(r) ==
    /\ r.op \in GetByIdOps
    /\ Role(r.caller) = "client"
    /\ RowExists(r.op, r.id)
    /\ OwnerOf(r.op, r.id) \notin ClientsOf(r.caller)

\* C5: a client-role caller's GET by id of a license, subscription, invoice
\* or transaction of another client answers 403 without the row.
C5_ForeignReadForbidden ==
    [][(Idle /\ ForeignRead(resp')) =>
          (resp'.status = 403 /\ resp'.body = {})]_vars

C5_Witness ==
    /\ ForeignRead(resp)
    /\ resp.op = "getLicense"
    /\ resp.status = 403

ListOps == {"getSubscriptions", "getInvoices", "getTransactions"}

ListedOwner(op, i) ==
    CASE op = "getSubscriptions" -> subscriptions[i].clientId
      [] op = "getInvoices" -> invoices[i].clientId
      [] OTHER -> transactions[i].clientId

\* C6: a list a client-role caller gets never holds another client's rows,
\* whatever clientId the query names.
C6_ListsAreScoped ==
    [][(Idle /\ resp'.op \in ListOps /\ Role(resp'.caller) = "client") =>
          \A i \in resp'.body :
              ListedOwner(resp'.op, i) \in ClientsOf(resp'.caller)]_vars

EntitlementOps ==
    {"postLicense", "patchLicense", "postSubscription", "patchSubscription",
     "postInvoice", "postTransaction", "patchTransaction"}

\* The caller of the request a step works for: an in-flight request's
\* once one has started, the answered one otherwise.
StepCaller ==
    IF inflight' \ inflight # {}
    THEN (CHOOSE r \in inflight' \ inflight : TRUE).caller
    ELSE resp'.caller

\* C7: an entitlement-mutating request of a caller who is not sales or
\* admin is answered 403 with every stored entity unchanged, and every
\* change of a stored entity is the work of a sales or admin caller.
C7_MutationsNeedSales ==
    [][/\ (Idle /\ resp'.op \in EntitlementOps
               /\ Role(resp'.caller) \notin {"sales", "admin"})
            => (resp'.status = 403 /\ entities' = entities)
       /\ entities' # entities => Role(StepCaller) \in {"sales", "admin"}]_vars

C7_Witness ==
    /\ resp.op = "postTransaction" /\ resp.status = 403
    /\ Role(resp.caller) = "client"
    /\ Len(licenses) > 0 /\ Len(invoices) > 0

\* --------------------------------- claims on expiry and renewal
daysUntilExpiration(l) ==
    differenceInDays(licenses[l].expirationDate * TicksPerDay, now)

\* C8: the expiring-licenses query returns exactly the active licenses with
\* 0 <= daysUntilExpiration <= n.
C8_ExpiringWindow ==
    [][(Answers("expiringLicenses") /\ resp'.status = 200) =>
          resp'.body =
              {l \in DOMAIN licenses :
                  /\ licenses[l].status = "active"
                  /\ 0 <= daysUntilExpiration(l)
                  /\ daysUntilExpiration(l) <= ExpiringThresholdDays}]_vars

\* C9: renewing an active license moves its expirationDate on by the
\* subscription's billing period, resets notificationsSent and adds no row.
C9_RenewExtends ==
    [][\A l \in DOMAIN licenses :
          (Answers("renew") /\ resp'.id = l /\ licenses[l].status = "active")
          => /\ licenses'[l].expirationDate =
                    AddMonths(licenses[l].expirationDate,
                              PeriodMonths(subscriptions[
                                  licenses[l].subscriptionId].subscriptionType))
             /\ licenses'[l].notificationsSent = 0
             /\ Len(licenses') = Len(licenses)]_vars

\* C10: renewing a pending, expired or revoked license is rejected with an
\* InvalidTransition error (a 400) and leaves the license as it was.
C10_RenewRejected ==
    [][\A l \in DOMAIN licenses :
          (Answers("renew") /\ resp'.id = l /\ licenses[l].status # "active")
          => /\ resp'.status = 400
             /\ licenses'[l] = licenses[l]]_vars


\* ------------------------------------------- claims on generated ids
\* C11: no two invoice creations in flight hold the same generated invoice
\* number.
C11_DistinctGeneratedNumbers ==
    \A r1, r2 \in inflight :
        r1.req # r2.req => r1.data.invoiceNumber # r2.data.invoiceNumber

\* A sales caller's valid POST /api/licenses that leaves the key to the
\* server takes this step.
GeneratedKeyPost ==
    \E u \in CreateCallers, d \in CreateLicenseInserts :
        /\ isSales(u) /\ ValidLicenseInsert(d)
        /\ d.licenseKey = EmptyKey
        /\ d.subscriptionId \in DOMAIN subscriptions
        /\ PostLicense(u, d)

\* C12: concurrent POST /api/licenses of sales callers without a licenseKey
\* all succeed (201), each new license with a key no other license has.
C12_GeneratedKeysSucceed ==
    [][GeneratedKeyPost =>
          /\ resp'.status = 201
          /\ \A l \in DOMAIN licenses :
                 licenses[l].licenseKey
                     # licenses'[Len(licenses')].licenseKey]_vars

\* The insert of this step meets a unique-constraint collision of the
\* generated key or number.
GeneratedCollision ==
    \/ GeneratedKeyPost /\ licenses' = licenses
    \/ \E r \in inflight :
           NumberInUse(r.data.invoiceNumber, 0) /\ PostInvoiceInsert(r)

\* C13: a collision of a generated license key or invoice number ends in a
\* success after regeneration or in a Conflict (409) with the store
\* unchanged, never in another error and never in a stored duplicate.
C13_CollisionIsConflict ==
    [][GeneratedCollision =>
          /\ resp'.status \in {201, 409}
          /\ resp'.status = 409 => entities' = entities]_vars


\* C14: no two stored licenses share a licenseKey.
C14_LicenseKeysUnique ==
    \A l1, l2 \in DOMAIN licenses :
        l1 # l2 => licenses[l1].licenseKey # licenses[l2].licenseKey

\* Two licenses are stored and an update that would give one the key of
\* the other has been refused.
C14_Witness ==
    /\ Len(licenses) = 2
    /\ resp.op = "patchLicense" /\ resp.status = 500
    /\ \E l \in DOMAIN licenses : l # resp.id /\ licenses[l].licenseKey = 1


\* ------------------------------------------- claims on the dashboard
\* C15: GET /api/dashboard/stats answers 200 whichever of its four queries
\* fail, with 0 for each failing statistic and, for each other one, the
\* value its query returns.
C15_StatsIndependent ==
    [][(Answers("dashboardStats") /\ isAuthenticated(resp'.caller)) =>
          /\ resp'.status = 200
          /\ \A failing \in SUBSET StatNames :
                 GetDashboardStats(resp'.caller, failing) =>
                     resp'.body =
                         {<<n, 0>> : n \in failing}
                         \cup {<<n, StatQuery(n)>> :
                                   n \in StatNames \ failing}]_vars

\* The revenue query failed where it had something to return, and the
\* client count is there all the same.
C15_Witness ==
    /\ resp.op = "dashboardStats" /\ resp.status = 200
    /\ getMonthlyRevenue > 0
    /\ <<"monthlyRevenue", 0>> \in resp.body
    /\ <<"totalClients", Len(clients)>> \in resp.body

DashboardOps ==
    {"dashboardStats", "expiringLicenses", "recentTickets",
     "recentTransactions"}

\* C16: the dashboard and alerting queries leave every stored entity as it
\* was.
C16_DashboardReadOnly ==
    [][(Idle /\ resp'.op \in DashboardOps) => entities' = entities]_vars

\* The expiring-licenses query has returned licenses, none counted as
\* notified.
C16_Witness ==
    /\ resp.op = "expiringLicenses" /\ resp.status = 200
    /\ resp.body # {}
    /\ \A l \in resp.body : licenses[l].notificationsSent = 0

\* Midnight of the first day of the month after that of instant t.
firstDayOfNextMonth(t) ==
    LET ymd == YMD(Epoch.year, 1, (t \div TicksPerDay) + Epoch.offset)
    IN  firstDayOfMonth(t) + DaysInMonth(ymd[1], ymd[2]) * TicksPerDay

C18_TotalIsAmountPlusTax ==
    [][\A i \in DOMAIN invoices' :
          i \notin DOMAIN invoices =>
              invoices'[i].totalAmount
                  = invoices'[i].amount + invoices'[i].tax]_vars


\* -------------------------------------------------- claims on tickets
\* Ticket t is unassigned or assigned to a staff record of user u.
MayHandle(u, t) ==
    \/ tickets[t].assignedTo = NoStaff
    \/ /\ tickets[t].assignedTo \in DOMAIN staff
       /\ staff[tickets[t].assignedTo].userId = u

\* C19: a support caller reads (by id or in a list) and changes (PATCH, POST
\* of an update) only tickets that are unassigned or assigned to the
\* caller's staff record, and a support or admin caller with a staff record
\* is given every unassigned ticket it asks for by id.
C19_SupportSeesOwnTickets ==
    [][/\ (Idle /\ Role(resp'.caller) = "support"
               /\ resp'.op \in {"getTicket", "getTickets"})
            => \A t \in resp'.body : MayHandle(resp'.caller, t)
       /\ (Idle /\ Role(resp'.caller) = "support"
               /\ resp'.op \in {"patchTicket", "postTicketUpdate"}
               /\ resp'.status \in {200, 201})
            => MayHandle(resp'.caller, resp'.id)
       /\ (Answers("getTicket") /\ isSupport(resp'.caller)
               /\ resp'.id \in DOMAIN tickets
               /\ tickets[resp'.id].assignedTo = NoStaff
               /\ getStaffByUserId(resp'.caller) # {NoStaff})
            => resp'.status = 200]_vars


\* C29: a ticket has closedAt set exactly when its status is resolved or
\* closed.
C29_ClosedAtIffClosed ==
    \A t \in DOMAIN tickets :
        tickets[t].closedAt # NoDate
            <=> tickets[t].status \in {"resolved", "closed"}

\* C30: a ticket a client-role caller creates is stored under one of the
\* caller's own client records, whatever clientId the body names; a
\* client-role caller without a client record is answered 403 and nothing
\* is stored; a client-role caller posting an update on a ticket of another
\* client is answered 403 and the ticket and the updates stay as they were.
C30_ClientTicketsUnderOwnRecord ==
    [][/\ (Answers("postTicket") /\ Role(resp'.caller) = "client")
            => IF ClientsOf(resp'.caller) = {}
               THEN /\ resp'.status = 403
                    /\ tickets' = tickets
                    /\ ticketUpdates' = ticketUpdates
               ELSE IF resp'.status = 201
                    THEN /\ Len(tickets') = Len(tickets) + 1
                         /\ tickets'[Len(tickets')].clientId
                                \in ClientsOf(resp'.caller)
                    ELSE tickets' = tickets
       /\ (Answers("postTicketUpdate") /\ Role(resp'.caller) = "client"
               /\ resp'.id \in DOMAIN tickets
               /\ tickets[resp'.id].clientId \notin ClientsOf(resp'.caller))
            => /\ resp'.status = 403
               /\ tickets' = tickets
               /\ ticketUpdates' = ticketUpdates]_vars

\* A client was refused an update on another client's ticket, and client
\* user 4, who named client 2 in the body, holds a ticket under client 1.
C30_Witness ==
    /\ resp.op = "postTicketUpdate" /\ resp.status = 403
    /\ Role(resp.caller) = "client"
    /\ resp.id \in DOMAIN tickets
    /\ ClientsOf(resp.caller) # {}
    /\ tickets[resp.id].clientId \notin ClientsOf(resp.caller)
    /\ \E t \in DOMAIN tickets, n \in DOMAIN ticketUpdates :
           /\ tickets[t].clientId = 1
           /\ ticketUpdates[n] = NewTicketUpdate(t, 4)


\* ------------------------------------------------ claims on existence
\* A client-role caller asked by id for a row that does not exist.
MissingRead(r) ==
    /\ r.op \in GetByIdOps
    /\ Role(r.caller) = "client"
    /\ ~RowExists(r.op, r.id)

\* C20: to a client-role caller, GET by id of a license, subscription,
\* invoice or transaction answers the same whether the id is another
\* client's row or no row at all.  The answer is a function of the store,
\* the caller and the id, so the two runs agree exactly when both kinds of
\* request get the one Forbidden answer.
C20_ExistenceNotObservable ==
    [][(Idle /\ (ForeignRead(resp') \/ MissingRead(resp'))) =>
          (resp'.status = 403 /\ resp'.body = {})]_vars

\* ------------------------------------- claims on expiry and notifications
\* The licence is active and its expirationDate lies before the clock.
ActivePastExpiration(l) ==
    /\ l \in DOMAIN licenses
    /\ licenses[l].status = "active"
    /\ licenses[l].expirationDate * TicksPerDay < now

\* C21: every active license whose expirationDate has passed is eventually
\* taken out of the active status by the system itself, so that the
\* active-license count does not keep counting it.
C21_ExpiredEventually ==
    \A l \in 1..MaxLicenses :
        ActivePastExpiration(l)
            ~> (l \in DOMAIN licenses /\ licenses[l].status # "active")

\* C22: notificationsSent of a license changes only when an alert for that
\* license is dispatched, and then by exactly one, or when a renewal
\* resets it to zero; no query and no other request changes it.
C22_NotificationsCountAlerts ==
    [][\A l \in DOMAIN licenses :
          licenses'[l].notificationsSent # licenses[l].notificationsSent
          => \/ /\ Answers("remind") /\ resp'.id = l
                /\ licenses'[l].notificationsSent =
                       licenses[l].notificationsSent + 1
             \/ /\ Answers("renew") /\ resp'.id = l
                /\ licenses'[l].notificationsSent = 0]_vars

\* ------------------------------------------- claims on accounts
\* C23: each client record is backed by exactly one user, whose role is
\* client, and each user backs at most one client record.
C23_ClientBackedByClientUser ==
    \A c \in DOMAIN clients :
        /\ clients[c].userId \in DOMAIN users
        /\ Role(clients[c].userId) = "client"
        /\ \A d \in DOMAIN clients :
               clients[d].userId = clients[c].userId => d = c

\* C28: a caller who was unauthenticated and registered by itself never
\* has an entitlement-mutating request, gated on sales or admin, accepted.
C28_NoSelfPromotion ==
    [][(Idle /\ resp'.op \in EntitlementOps
             /\ resp'.caller \notin DOMAIN SeedUsers)
          => resp'.status \in {401, 403}]_vars

\* ------------------------------------------- claims on license rows
\* C24: every stored license has activationDate <= expirationDate.
C24_ActivationBeforeExpiration ==
    \A l \in DOMAIN licenses :
        licenses[l].activationDate <= licenses[l].expirationDate

\* The step is an accepted PATCH /api/licenses/:id that takes license l
\* from active to revoked.
Revokes(l) ==
    /\ Answers("patchLicense") /\ resp'.id = l /\ resp'.status = 200
    /\ licenses[l].status = "active"
    /\ licenses'[l].status = "revoked"

\* C25: revoking a license changes that license row alone: every other
\* license, and every subscription, invoice, transaction and other stored
\* row, is as before.
C25_RevokeChangesOneRow ==
    [][\A l \in DOMAIN licenses :
          Revokes(l)
          => /\ DOMAIN licenses' = DOMAIN licenses
             /\ \A m \in DOMAIN licenses \ {l} : licenses'[m] = licenses[m]
             /\ UNCHANGED <<users, clients, staff, subscriptions, invoices,
                            transactions, tickets, ticketUpdates>>]_vars

C25_Witness ==
    /\ resp.op = "patchLicense" /\ resp.status = 200
    /\ Len(licenses) = 2
    /\ licenses[resp.id].status = "revoked"
    /\ \E m \in DOMAIN licenses :
           /\ m # resp.id
           /\ licenses[m].status = "active"
           /\ licenses[m].subscriptionId = licenses[resp.id].subscriptionId
    /\ Len(invoices) > 0 /\ Len(transactions) > 0

\* ------------------------------------------- claims on invoices
\* C26: with requests handled one at a time, an invoice created without an
\* invoiceNumber gets a number no stored invoice holds, whatever numbers
\* callers supplied before, and the creation succeeds.
C26_AutoNumberIsFresh ==
    [][\A u \in NumberingCallers, d \in NumberedInvoices :
          (isSales(u) /\ d.invoiceNumber = EmptyKey /\ PostInvoice(u, d))
          => /\ ~NumberInUse(generateInvoiceNumber, 0)
             /\ resp'.status = 201]_vars

\* C27: once no request is under way, every invoice that a stored
\* transaction references has isPaid set.
C27_ReferencedInvoiceIsPaid ==
    inflight = {}
    => \A t \in DOMAIN transactions :
           transactions[t].invoiceId \in DOMAIN invoices
           => invoices[transactions[t].invoiceId].isPaid


====
